---- MODULE Spec2Model ----
(***************************************************************************)
(* minus80: a Raspberry Pi watches one GPIO pin wired to a freezer alarm   *)
(* contact.  Board.monitor (the Watcher, main thread) debounces the pin    *)
(* and starts one EventThread per recorded level change; each thread runs  *)
(* Board.alert -> Event.alert -> notify_recipients / handle_error /        *)
(* handle_email_error and, when the board status is 1, Board.check_alert.  *)
(*                                                                         *)
(* Threads share Board.__input_status (written by the Watcher, read by the *)
(* flows) and the pin itself (driven by the environment).  Every read or   *)
(* write of one of these is a step of its own, so TLC explores every       *)
(* interleaving of the Watcher, the flows and the line.                    *)
(***************************************************************************)
EXTENDS Integers, Sequences, FiniteSets, TLC

\* ---- bounds of the exploration ------------------------------------------
MaxFlows == 2        \* EventThreads the Watcher may start
MaxSends == 2        \* send_email calls over all flows
MaxFlowSends == 8    \* send_email calls when one flow is followed to its end
MaxCalls == 2        \* send_email calls on one Email object
MaxRows == 2         \* rows of the CSV file
MaxTwoSends == 3     \* send_email calls when two re-alert cycles are followed
MaxLiveSends == 2    \* send_email calls that may fail before the transport heals

\* ---- program constants --------------------------------------------------
Window        == 60  \* check_alert: end_time = current_time + timedelta(0, 60)
SubInterval   == 10  \* check_alert: sleep(10)
RetryInterval == 5   \* handle_email_error: sleep(5)
NoStatus      == 0 - 1   \* Board.__init__: self.__input_status = None

Flows  == 1..(MaxFlows + 1)
Levels == {0, 1}
LookupOutcomes == {"row", "empty", "nofile"}

VARIABLES
    \* the line and the GPIO library
    pin,            \* current level of the monitored line (GPIO.input)
    edge,           \* an edge was seen and not yet reported by wait_for_edge
    \* the Watcher, Board.monitor
    wpc,            \* position of the main thread in monitor()
    input_status,   \* Board.__input_status
    read1,          \* the Watcher's read of line 159, then of each line 177
    nflows,         \* EventThreads started so far
    lastPass,       \* how the last pass of the monitor loop ended
    passEvents,     \* initiate_event calls since the last wake-up
    \* the flows, one EventThread each (Board.alert)
    fpc,            \* position of the thread
    event_time,     \* Event.__event_time of the flow's Event
    trans,          \* level logged by initiate_event when it started the thread
    status,         \* Event.__status
    ctx,            \* caller of Event.alert: Board.alert or check_alert
    now,            \* seconds since check_alert started (datetime.now())
    current_time,   \* check_alert: current_time, seconds since it started
    alarm_counter,  \* check_alert: alarm_counter
    failure_count,  \* handle_email_error: failure_count
    failLog,        \* "Failure attempt #%i" values logged by this retry loop
    retrySleeps,    \* sleep(5) calls of this retry loop
    retrySends,     \* send_email calls of this retry loop
    email_sent,     \* handle_email_error: email_sent
    lookup1,        \* outcome of the lookup of the first Event.alert call
    primary1,       \* outcome of the primary send of the first Event.alert call
    it1,            \* outcome of the IT send of the first Event.alert call
    nPrimary,       \* primary send attempts of the flow 
    nIT,            \* IT messages composed and tried by handle_error 
    nRetry,         \* retry-loop send attempts of the flow 
    \* what a flow has done in check_alert
    alarmLog,       \* "Alarm Cycle #%s" values logged by check_alert
    resends,        \* event.alert calls made by check_alert
    cycleRetries,   \* sleep(5) calls of retry loops entered from check_alert
    lowRead,        \* the fresh read of a tick of the flow was 0
    \* what a flow has looked up, logged and sent
    nLookups,       \* parse_csv calls of the flow
    lastSend,       \* the flow's latest send_email call and its outcome
    lastLog,        \* the flow's latest log entry
    error_message,  \* Event.alert / notify_recipients / handle_error: error_message
    email,          \* handle_error: the Email object handed to handle_email_error
    itMsg,          \* the message handle_error tried to send, line 190
    sentMsg,        \* the message of the flow's latest send_email call
    \* one Email object and one FreezerData object on their own
    mail,           \* an Email object, its send_email calls and their SMTP calls
    csv,            \* a CSV file, a FreezerData object and the route Event.alert takes
    \* exploration
    sends,          \* send_email calls so far, all flows
    cap             \* the caps of this exploration

wvars == <<wpc, input_status, read1, nflows, lastPass, passEvents>>
cvars == <<now, current_time, alarm_counter>>
rvars == <<failure_count, failLog, retrySleeps, retrySends, email_sent>>
hvars == <<lookup1, primary1, it1, nPrimary, nIT, nRetry>>
fvars == <<fpc, trans, status, event_time, ctx, cvars, rvars, hvars, sends>>
kvars == <<alarmLog, resends, cycleRetries, lowRead>>
lvars == <<nLookups, lastSend, lastLog>>
mvars == <<error_message, email, itMsg, sentMsg>>
xvars == <<kvars, lvars, mvars>>
pvars == <<mail, csv>>
vars  == <<pin, edge, wvars, fvars, cap, xvars, pvars>>

\* ---- messages and log entries -----------------------------------------
\* Strings are sequences of their parts; a message is what Email.__init__
\* stores of its arguments.
NoTime == 0 - 1
NoEmail == [recipient |-> "", subject |-> << >>, body |-> << >>, time |-> NoTime]
SiteRecipient == "data[Email]"           \* notify_recipients line 147
ItRecipient   == "mail_data[it_email]"   \* handle_error line 189

\* notify_recipients lines 120-151; time is the event time that lines
\* 120-121 format into the subject and the body
PrimaryMessage(st, tm) ==
    [recipient |-> SiteRecipient,
     subject   |-> <<"!!! -80", st, "!!! detected on date at time in location">>,
     body      |-> <<st, "event detected on date at time in location">>,
     time      |-> tm]

\* Event.alert line 93 and notify_recipients lines 156-157
LookupError == <<"Failed to parse CSV file">>
PrimaryError(recipient) == <<"!!! -80 ALERT !!! Failure to email", recipient>>

\* handle_error lines 179-189
ItMessage(st, tm, em) ==
    [recipient |-> ItRecipient,
     subject   |-> <<"!!! -80 ALERT !!!">> \o em,
     body      |-> <<"Minus 80 alarm status:", st, "Event time:", "Error:">> \o em,
     time      |-> tm]

\* handle_error line 194: error_message += " AND email IT team"
ItFailure(em) == em \o <<"AND email IT team">>

\* RetryEmail without the set_subject of line 203.
RetryEmailSameSubject(msg, em) == msg

\* handle_error line 203: email.set_subject(error_message)
RetryEmail(msg, em) == [msg EXCEPT !.subject = em]

\* handle_error lines 175-176: error_message and "DETAILS: %s" at level error
HandleErrorLog(prev, stage) == <<"error", stage>>

\* CriticalLog when the failure is logged only after the retries.
CriticalLogMissing(prev, stage) == prev

\* handle_error lines 197-200 and handle_email_error lines 233-236: the
\* failure and its details at level critical
CriticalLog(prev, stage) == <<"critical", stage>>

\* FailureRoute when a failed retry goes back to the primary notification.
FailureRouteRetryPrimary(stage) ==
    CASE stage = "primary" -> "it"
      [] stage = "it"      -> "retry_sleep"
      [] stage = "retry"   -> "primary"

\* FailureRoute when the except clause of notify_recipients is missing: the
\* exception ends the thread.
FailureRouteUncaught(stage) ==
    CASE stage = "primary" -> "done"
      [] stage = "it"      -> "retry_sleep"
      [] stage = "retry"   -> "retry_sleep"

\* Where a failed send_email leads: notify_recipients lines 154-158,
\* handle_error lines 192-204, handle_email_error lines 224-237.
FailureRoute(stage) ==
    CASE stage = "primary" -> "it"
      [] stage = "it"      -> "retry_sleep"
      [] stage = "retry"   -> "retry_sleep"

\* Event.__init__: "ALARM" if event_type else "RECOVERY"
EventStatus(event_type) == IF event_type = 1 THEN "ALARM" ELSE "RECOVERY"

\* ---- Email and FreezerData on their own ------------------------------------
Sender   == "mail_data[sender]"          \* Email.__init__ line 68
Password == "mail_data[mail_password]"   \* Email.__init__ line 67

\* send_email lines 99-102: the MIMEText built from the object's attributes
MimeText(obj) ==
    [Subject |-> obj.subject, From |-> Sender, To |-> obj.recipient,
     payload |-> [text |-> obj.body, time |-> obj.time]]

\* The Email objects of the flows: the primary message and the IT message.
EmailObjects ==
    {PrimaryMessage(st, 0) : st \in {"ALARM", "RECOVERY"}}
      \cup {ItMessage(st, 0, em) : st \in {"ALARM", "RECOVERY"},
                                em \in {LookupError, PrimaryError(SiteRecipient)}}

\* No send_email call is in progress and none has been made.
NoCall(obj) ==
    [obj |-> obj, pc |-> "idle", calls |-> 0, message |-> MimeText(obj),
     logins |-> << >>, sendmails |-> << >>, failed |-> "none"]

\* FreezerData.__init__ line 25: self.__data = {}
NoData == [x \in {} |-> x]

Ips       == {"ip1", "ip2"}
Locations == {"loc1", "loc2"}
CsvRows   == [IP : Ips, Location : Locations, Email : {SiteRecipient}]
CsvFiles  ==
    {[exists |-> FALSE, rows |-> << >>]}
      \cup {[exists |-> TRUE, rows |-> r] :
               r \in UNION {[1..n -> CsvRows] : n \in 0..MaxRows}}

\* FirstMatch without the break of line 53: a later matching row replaces
\* the earlier one.
RECURSIVE FirstMatchNoBreak(_, _, _, _)
FirstMatchNoBreak(rows, ip, i, data) ==
    IF i > Len(rows) THEN data
    ELSE IF rows[i]["IP"] = ip
           THEN FirstMatchNoBreak(rows, ip, i + 1, rows[i])
           ELSE FirstMatchNoBreak(rows, ip, i + 1, data)

\* parse_csv lines 50-53: for row in reader: if row["IP"] == ip: data = row;
\* break
RECURSIVE FirstMatch(_, _, _, _)
FirstMatch(rows, ip, i, data) ==
    IF i > Len(rows) THEN data
    ELSE IF rows[i]["IP"] = ip
           THEN rows[i]
           ELSE FirstMatch(rows, ip, i + 1, data)

\* Event.alert lines 84-94: what the lookup comes to for a FreezerData
\* object after parse_csv.
LookupOutcome(raised, data) ==
    IF raised THEN "nofile"
    ELSE IF data = NoData THEN "empty" ELSE "row"

\* Event.alert lines 90-99: notify_recipients when parsed, else handle_error
AlertRoute(o) == IF o = "row" THEN "primary" ELSE "it"

NoCsv ==
    [file |-> [exists |-> FALSE, rows |-> << >>], ip |-> "ip1", data |-> NoData,
     pc |-> "idle", route |-> "none"]

InitWith(c) ==
    /\ pin \in Levels
    /\ edge = FALSE
    /\ wpc = "start"
    /\ input_status = NoStatus
    /\ read1 = NoStatus
    /\ nflows = 0
    /\ lastPass = "none"
    /\ passEvents = 0
    /\ fpc = [f \in Flows |-> "idle"]
    /\ trans = [f \in Flows |-> NoStatus]
    /\ status = [f \in Flows |-> "NONE"]
    /\ event_time = [f \in Flows |-> NoTime]
    /\ ctx = [f \in Flows |-> "first"]
    /\ now = [f \in Flows |-> 0]
    /\ current_time = [f \in Flows |-> 0]
    /\ alarm_counter = [f \in Flows |-> 0]
    /\ failure_count = [f \in Flows |-> 0]
    /\ failLog = [f \in Flows |-> << >>]
    /\ retrySleeps = [f \in Flows |-> 0]
    /\ retrySends = [f \in Flows |-> 0]
    /\ email_sent = [f \in Flows |-> FALSE]
    /\ lookup1 = [f \in Flows |-> "none"]
    /\ primary1 = [f \in Flows |-> "none"]
    /\ it1 = [f \in Flows |-> "none"]
    /\ nPrimary = [f \in Flows |-> 0]
    /\ nIT = [f \in Flows |-> 0]
    /\ nRetry = [f \in Flows |-> 0]
    /\ alarmLog = [f \in Flows |-> << >>]
    /\ resends = [f \in Flows |-> 0]
    /\ cycleRetries = [f \in Flows |-> 0]
    /\ lowRead = [f \in Flows |-> FALSE]
    /\ nLookups = [f \in Flows |-> 0]
    /\ lastSend = [f \in Flows |-> "none"]
    /\ lastLog = [f \in Flows |-> <<"none">>]
    /\ error_message = [f \in Flows |-> << >>]
    /\ email = [f \in Flows |-> NoEmail]
    /\ itMsg = [f \in Flows |-> NoEmail]
    /\ sentMsg = [f \in Flows |-> NoEmail]
    /\ sends = 0
    /\ cap = c

\* The Watcher and up to MaxFlows concurrent flows.
Init ==
    /\ InitWith([flows |-> MaxFlows, sends |-> MaxSends, fails |-> MaxSends, heal |-> FALSE])
    /\ mail = NoCall(NoEmail)
    /\ csv = NoCsv

\* The Watcher and one flow, followed through its whole re-alert window.
InitFlow ==
    /\ InitWith([flows |-> 1, sends |-> MaxFlowSends, fails |-> MaxFlowSends, heal |-> FALSE])
    /\ mail = NoCall(NoEmail)
    /\ csv = NoCsv

\* The Watcher and one flow, with a transport that fails at most
\* MaxLiveSends times and succeeds from then on.
InitLive ==
    /\ InitWith([flows |-> 1, sends |-> MaxLiveSends, fails |-> MaxLiveSends, heal |-> TRUE])
    /\ mail = NoCall(NoEmail)
    /\ csv = NoCsv

\* The Watcher and three flows (an ALARM, the RECOVERY after it and the next
\* ALARM), with a transport that delivers after its first call.
InitTwo ==
    /\ InitWith([flows |-> 3, sends |-> MaxTwoSends, fails |-> 1, heal |-> FALSE])
    /\ mail = NoCall(NoEmail)
    /\ csv = NoCsv

\* One Email object, no Watcher and no flow.
InitEmail ==
    /\ InitWith([flows |-> 0, sends |-> 0, fails |-> 0, heal |-> FALSE])
    /\ \E obj \in EmailObjects : mail = NoCall(obj)
    /\ csv = NoCsv

\* One CSV file and one FreezerData object, no Watcher and no flow.
InitCsv ==
    /\ InitWith([flows |-> 0, sends |-> 0, fails |-> 0, heal |-> FALSE])
    /\ mail = NoCall(NoEmail)
    /\ \E file \in CsvFiles, ip \in Ips :
         csv = [file |-> file, ip |-> ip, data |-> NoData, pc |-> "new",
                route |-> "none"]

\* ---- the line ------------------------------------------------------------
\* The contact opens or closes.  The kernel records the edge.
LineChange ==
    /\ pin' = 1 - pin
    /\ edge' = TRUE
    /\ UNCHANGED <<wvars, fvars, cap, pvars, xvars>>

\* ---- the transport --------------------------------------------------------
\* Email.send_email returns or raises.  Up to cap.sends calls are followed,
\* the first cap.fails of them with either outcome; where cap.heal is set,
\* later calls are followed too and return.
CanSend == sends < cap.sends \/ cap.heal
SendOutcomes == IF sends < cap.fails THEN BOOLEAN ELSE {TRUE}

\* ---- Board.initiate_event ------------------------------------------------
\* Logs the board status and starts an EventThread running Board.alert.
InitiateEvent ==
    /\ nflows < cap.flows
    /\ nflows' = nflows + 1
    /\ trans' = [trans EXCEPT ![nflows + 1] = input_status]
    /\ fpc' = [fpc EXCEPT ![nflows + 1] = "create"]
    /\ passEvents' = passEvents + 1

\* ---- Board.monitor -------------------------------------------------------
\* line 159: self.set_input_status(GPIO.input(self.__pin))
MonitorStart ==
    /\ wpc = "start"
    /\ input_status' = pin
    /\ read1' = pin
    /\ wpc' = "startcheck"
    /\ UNCHANGED <<pin, edge, nflows, lastPass, passEvents, fvars, cap, pvars, xvars>>

\* MonitorStartCheck without the call of line 164.
MonitorStartCheckNoEvent ==
    /\ wpc = "startcheck"
    /\ wpc' = "loop"
    /\ UNCHANGED <<pin, edge, input_status, read1, nflows, lastPass, passEvents>>
    /\ UNCHANGED <<fvars, cap, pvars, xvars>>

\* line 164: if self.get_input_status() == 1: self.initiate_event()
MonitorStartCheck ==
    /\ wpc = "startcheck"
    /\ wpc' = "loop"
    /\ IF input_status = 1
         THEN InitiateEvent
         ELSE UNCHANGED <<nflows, trans, fpc, passEvents>>
    /\ UNCHANGED <<pin, edge, input_status, read1, lastPass>>
    /\ UNCHANGED <<status, event_time, ctx, cvars, rvars, hvars, sends, cap, pvars, xvars>>

\* MonitorLoop as it would be if initiate_event joined the thread it started:
\* the Watcher comes back to the loop only when every flow has ended.
MonitorLoopJoined ==
    /\ wpc = "loop"
    /\ nflows < cap.flows
    /\ \A f \in Flows : fpc[f] \in {"idle", "done"}
    /\ edge' \in {edge, FALSE}
    /\ wpc' = "wait"
    /\ UNCHANGED <<pin, input_status, read1, nflows, lastPass, passEvents>>
    /\ UNCHANGED <<fvars, cap, pvars, xvars>>

\* line 173, the call: GPIO.wait_for_edge starts to block.  Whether an edge
\* that arrived since the previous call returned is still reported is the
\* GPIO library's choice.
MonitorLoop ==
    /\ wpc = "loop"
    /\ nflows < cap.flows
    /\ edge' \in {edge, FALSE}
    /\ wpc' = "wait"
    /\ UNCHANGED <<pin, input_status, read1, nflows, lastPass, passEvents>>
    /\ UNCHANGED <<fvars, cap, pvars, xvars>>

\* line 173, the return: an edge wakes the Watcher.
WaitForEdge ==
    /\ wpc = "wait"
    /\ edge
    /\ edge' = FALSE
    /\ wpc' = "debounce"
    /\ lastPass' = "pending"
    /\ passEvents' = 0
    /\ UNCHANGED <<pin, input_status, read1, nflows, fvars, cap, pvars, xvars>>

\* MonitorCompare without the comparison of line 177: every wake-up is
\* taken for a change.
MonitorCompareNoTest ==
    /\ wpc = "debounce"
    /\ read1' = pin
    /\ wpc' = "store"
    /\ UNCHANGED <<pin, edge, input_status, nflows, lastPass, passEvents, fvars, cap, pvars, xvars>>

\* lines 175-177: sleep(0.005); if self.get_input_status() != GPIO.input(pin)
MonitorCompare ==
    /\ wpc = "debounce"
    /\ read1' = pin
    /\ IF input_status # pin
         THEN /\ wpc' = "store"
              /\ UNCHANGED lastPass
         ELSE /\ wpc' = "loop"
              /\ lastPass' = "bounce"
    /\ UNCHANGED <<pin, edge, input_status, nflows, passEvents, fvars, cap, pvars, xvars>>

\* MonitorStore without the assignment of line 180.
MonitorStoreKeepsOld ==
    /\ wpc = "store"
    /\ lastPass' = IF pin = read1 THEN "stable" ELSE "unstable"
    /\ wpc' = "initiate"
    /\ UNCHANGED <<pin, edge, input_status, read1, nflows, passEvents, fvars, cap, pvars, xvars>>

\* line 180: self.set_input_status(GPIO.input(self.__pin)), a second read
MonitorStore ==
    /\ wpc = "store"
    /\ input_status' = pin
    /\ lastPass' = IF pin = read1 THEN "stable" ELSE "unstable"
    /\ wpc' = "initiate"
    /\ UNCHANGED <<pin, edge, read1, nflows, passEvents, fvars, cap, pvars, xvars>>

\* line 183: self.initiate_event()
MonitorInitiate ==
    /\ wpc = "initiate"
    /\ InitiateEvent
    /\ wpc' = "loop"
    /\ UNCHANGED <<pin, edge, input_status, read1, lastPass>>
    /\ UNCHANGED <<status, event_time, ctx, cvars, rvars, hvars, sends, cap, pvars, xvars>>

Watcher ==
    \/ MonitorStart
    \/ MonitorStartCheck
    \/ MonitorLoop
    \/ WaitForEdge
    \/ MonitorCompare
    \/ MonitorStore
    \/ MonitorInitiate

\* ---- the flows: Board.alert, Event.alert, Board.check_alert -------------
\* AlertReturns without line 249: current_time keeps the start time.
AlertReturnsStaleTime(f) ==
    IF ctx[f] = "first"
      THEN /\ fpc' = [fpc EXCEPT ![f] = "check"]
           /\ UNCHANGED current_time
      ELSE /\ UNCHANGED current_time
           /\ fpc' = [fpc EXCEPT ![f] = IF current_time[f] < Window THEN "tick" ELSE "done"]

\* Event.alert returns to its caller.  In Board.alert the next statement is
\* the test of line 212; in check_alert it is line 249,
\* current_time = datetime.now(), followed by the loop test of line 232.
AlertReturns(f) ==
    IF ctx[f] = "first"
      THEN /\ fpc' = [fpc EXCEPT ![f] = "check"]
           /\ UNCHANGED current_time
      ELSE /\ current_time' = [current_time EXCEPT ![f] = now[f]]
           /\ fpc' = [fpc EXCEPT ![f] = IF now[f] < Window THEN "tick" ELSE "done"]

\* datetime.now() as a flow sees it: the time since its thread started, and
\* in check_alert the time since line 227.
DatetimeNow(f) == now[f]

\* GetEventTime taking the time of the call instead of the Event's time.
GetEventTimeNow(f) == DatetimeNow(f)

\* Event.get_event_time lines 49-52
GetEventTime(f) == event_time[f]

\* Board.alert line 208: event = Event(datetime.now(), self.get_input_status())
AlertCreate(f) ==
    /\ fpc[f] = "create"
    /\ status' = [status EXCEPT ![f] = EventStatus(input_status)]
    /\ event_time' = [event_time EXCEPT ![f] = DatetimeNow(f)]
    /\ fpc' = [fpc EXCEPT ![f] = "lookup"]
    /\ UNCHANGED <<pin, edge, wvars, trans, ctx, cvars, rvars, hvars, sends, cap, pvars, xvars>>

\* The last entry a flow logs when Event.alert returns after a send:
\* "Email sent to %s.", or check_alert's "End check alarm cycle" when the
\* window is over.
ReturnLog(f) ==
    IF ctx[f] = "cycle" /\ ~(now[f] < Window)
      THEN <<"info", "end_cycle">>
      ELSE <<"info", "sent">>

\* Event.alert lines 80-99: the directory lookup.  A row for the IP leads to
\* notify_recipients (which logs the success); a missing file or no row
\* leads to handle_error, which logs the failure before it sends.
EventAlert(f) ==
    /\ fpc[f] = "lookup"
    /\ nLookups' = [nLookups EXCEPT ![f] = @ + 1]
    /\ \E o \in LookupOutcomes :
         /\ fpc' = [fpc EXCEPT ![f] = AlertRoute(o)]
         /\ lookup1' = IF ctx[f] = "first"
                         THEN [lookup1 EXCEPT ![f] = IF o = "row" THEN "ok" ELSE "fail"]
                         ELSE lookup1
         /\ IF o = "row"
              THEN /\ lastLog' = [lastLog EXCEPT ![f] = <<"info", "parsed">>]
                   /\ UNCHANGED error_message
              ELSE /\ lastLog' = [lastLog EXCEPT ![f] = HandleErrorLog(@, "lookup")]
                   /\ error_message' = [error_message EXCEPT ![f] = LookupError]
    /\ UNCHANGED <<pin, edge, wvars, trans, status, event_time, ctx, cvars, rvars>>
    /\ UNCHANGED <<primary1, it1, nPrimary, nIT, nRetry, sends, cap, pvars>>
    /\ UNCHANGED <<kvars, lastSend, email, itMsg, sentMsg>>

\* Event.notify_recipients lines 149-158: one send to the site's recipient;
\* a failure goes to handle_error, which logs it before it sends.
NotifyRecipients(f) ==
    /\ fpc[f] = "primary"
    /\ CanSend
    /\ sends' = IF sends < cap.sends THEN sends + 1 ELSE sends
    /\ nPrimary' = [nPrimary EXCEPT ![f] = @ + 1]
    /\ sentMsg' = [sentMsg EXCEPT ![f] = PrimaryMessage(status[f], GetEventTime(f))]
    /\ \E ok \in SendOutcomes :
         /\ primary1' = IF ctx[f] = "first"
                          THEN [primary1 EXCEPT ![f] = IF ok THEN "ok" ELSE "fail"]
                          ELSE primary1
         /\ IF ok
              THEN /\ AlertReturns(f)
                   /\ lastSend' = [lastSend EXCEPT ![f] = "primary_ok"]
                   /\ lastLog' = [lastLog EXCEPT ![f] = ReturnLog(f)]
                   /\ UNCHANGED error_message
              ELSE /\ fpc' = [fpc EXCEPT ![f] = FailureRoute("primary")]
                   /\ lastSend' = [lastSend EXCEPT ![f] = "primary_fail"]
                   /\ lastLog' = [lastLog EXCEPT ![f] = HandleErrorLog(@, "primary")]
                   /\ error_message' =
                          [error_message EXCEPT ![f] = PrimaryError(SiteRecipient)]
                   /\ UNCHANGED current_time
    /\ UNCHANGED <<pin, edge, wvars, trans, status, event_time, ctx, now, alarm_counter, rvars>>
    /\ UNCHANGED <<lookup1, it1, nIT, nRetry, cap, pvars>>
    /\ UNCHANGED <<kvars, nLookups, email, itMsg>>

\* Event.handle_error lines 178-204: one send to the IT team; a failure is
\* logged, the subject is replaced and handle_email_error is entered (lines
\* 221-222 initialise the loop).
HandleError(f) ==
    /\ fpc[f] = "it"
    /\ CanSend
    /\ sends' = IF sends < cap.sends THEN sends + 1 ELSE sends
    /\ nIT' = [nIT EXCEPT ![f] = @ + 1]
    /\ itMsg' = [itMsg EXCEPT ![f] = ItMessage(status[f], GetEventTime(f), error_message[f])]
    /\ sentMsg' = [sentMsg EXCEPT ![f] = ItMessage(status[f], GetEventTime(f), error_message[f])]
    /\ \E ok \in SendOutcomes :
         /\ it1' = IF ctx[f] = "first"
                     THEN [it1 EXCEPT ![f] = IF ok THEN "ok" ELSE "fail"]
                     ELSE it1
         /\ IF ok
              THEN /\ AlertReturns(f)
                   /\ lastSend' = [lastSend EXCEPT ![f] = "it_ok"]
                   /\ lastLog' = [lastLog EXCEPT ![f] = ReturnLog(f)]
                   /\ UNCHANGED <<rvars, error_message, email>>
              ELSE /\ fpc' = [fpc EXCEPT ![f] = FailureRoute("it")]
                   /\ lastSend' = [lastSend EXCEPT ![f] = "it_fail"]
                   /\ lastLog' = [lastLog EXCEPT ![f] = CriticalLog(@, "it")]
                   /\ error_message' = [error_message EXCEPT ![f] = ItFailure(@)]
                   /\ email' = [email EXCEPT ![f] =
                                  RetryEmail(ItMessage(status[f], GetEventTime(f), error_message[f]),
                                             ItFailure(error_message[f]))]
                   /\ email_sent' = [email_sent EXCEPT ![f] = FALSE]
                   /\ failure_count' = [failure_count EXCEPT ![f] = 0]
                   /\ failLog' = [failLog EXCEPT ![f] = << >>]
                   /\ retrySleeps' = [retrySleeps EXCEPT ![f] = 0]
                   /\ retrySends' = [retrySends EXCEPT ![f] = 0]
                   /\ UNCHANGED current_time
    /\ UNCHANGED <<pin, edge, wvars, trans, status, event_time, ctx, now, alarm_counter>>
    /\ UNCHANGED <<lookup1, primary1, nPrimary, nRetry, cap, pvars>>
    /\ UNCHANGED <<kvars, nLookups>>

\* Event.handle_email_error lines 224-226: while not email_sent: sleep(5)
RetrySleep(f) ==
    /\ fpc[f] = "retry_sleep"
    /\ ~email_sent[f]
    /\ retrySleeps' = [retrySleeps EXCEPT ![f] = @ + 1]
    /\ now' = [now EXCEPT ![f] = IF ctx[f] = "cycle" THEN @ + RetryInterval ELSE @]
    /\ cycleRetries' = [cycleRetries EXCEPT ![f] = IF ctx[f] = "cycle" THEN @ + 1 ELSE @]
    /\ fpc' = [fpc EXCEPT ![f] = "retry_send"]
    /\ UNCHANGED <<pin, edge, wvars, trans, status, event_time, ctx, current_time, alarm_counter>>
    /\ UNCHANGED <<failure_count, failLog, retrySends, email_sent, hvars, sends, cap, pvars>>
    /\ UNCHANGED <<alarmLog, resends, lowRead, lvars, mvars>>

\* handle_email_error lines 227-237 with the value to log for a failure.
RetrySendLogging(f, logged) ==
    /\ fpc[f] = "retry_send"
    /\ CanSend
    /\ sends' = IF sends < cap.sends THEN sends + 1 ELSE sends
    /\ nRetry' = [nRetry EXCEPT ![f] = @ + 1]
    /\ retrySends' = [retrySends EXCEPT ![f] = @ + 1]
    /\ sentMsg' = [sentMsg EXCEPT ![f] = email[f]]
    /\ \E ok \in SendOutcomes :
         IF ok
           THEN /\ email_sent' = [email_sent EXCEPT ![f] = TRUE]
                /\ AlertReturns(f)
                /\ lastSend' = [lastSend EXCEPT ![f] = "retry_ok"]
                /\ lastLog' = [lastLog EXCEPT ![f] = ReturnLog(f)]
                /\ UNCHANGED <<failure_count, failLog>>
           ELSE /\ failure_count' = [failure_count EXCEPT ![f] = @ + 1]
                /\ failLog' = [failLog EXCEPT ![f] = Append(@, logged)]
                /\ email_sent' = [email_sent EXCEPT ![f] = FALSE]
                /\ fpc' = [fpc EXCEPT ![f] = FailureRoute("retry")]
                /\ lastSend' = [lastSend EXCEPT ![f] = "retry_fail"]
                /\ lastLog' = [lastLog EXCEPT ![f] = CriticalLog(@, "retry")]
                /\ UNCHANGED current_time
    /\ UNCHANGED <<pin, edge, wvars, trans, status, event_time, ctx, now, alarm_counter>>
    /\ UNCHANGED <<retrySleeps, lookup1, primary1, it1, nPrimary, nIT, cap, pvars>>
    /\ UNCHANGED <<kvars, nLookups, error_message, email, itMsg>>

\* RetrySend logging the counter before it is incremented.
RetrySendLogsOldCount(f) == RetrySendLogging(f, failure_count[f])

\* Event.handle_email_error lines 227-237: one send; success sets email_sent
\* and ends the loop, failure counts and logs "Failure attempt #%i".
RetrySend(f) == RetrySendLogging(f, failure_count[f] + 1)

\* Board.alert lines 212-217: if self.get_input_status() == 1: check_alert;
\* check_alert lines 227-231 take the start time and clear the counter.
AlertCheck(f) ==
    /\ fpc[f] = "check"
    /\ IF input_status = 1
         THEN /\ ctx' = [ctx EXCEPT ![f] = "cycle"]
              /\ now' = [now EXCEPT ![f] = 0]
              /\ current_time' = [current_time EXCEPT ![f] = 0]
              /\ alarm_counter' = [alarm_counter EXCEPT ![f] = 0]
              /\ fpc' = [fpc EXCEPT ![f] = "tick"]
              /\ lastLog' = [lastLog EXCEPT ![f] = <<"info", "start_cycle">>]
         ELSE /\ fpc' = [fpc EXCEPT ![f] = "done"]
              /\ UNCHANGED <<ctx, cvars, lastLog>>
    /\ UNCHANGED <<pin, edge, wvars, trans, status, event_time, rvars, hvars, sends, cap, pvars>>
    /\ UNCHANGED <<kvars, nLookups, lastSend, mvars>>

\* check_alert lines 232-255 with the level tested at line 238, the position
\* a 0 leads to and the value input_status has afterwards.
CheckAlertBreaking(f, level, afterLow, stored) ==
    /\ fpc[f] = "tick"
    /\ input_status' = stored
    /\ current_time[f] < Window
    /\ now' = [now EXCEPT ![f] = @ + SubInterval]
    /\ IF level = 1
         THEN /\ alarm_counter' = [alarm_counter EXCEPT ![f] = @ + 1]
              /\ alarmLog' = [alarmLog EXCEPT ![f] = Append(@, alarm_counter[f] + 1)]
              /\ resends' = [resends EXCEPT ![f] = @ + 1]
              /\ fpc' = [fpc EXCEPT ![f] = "lookup"]
              /\ lastLog' = [lastLog EXCEPT ![f] = <<"info", "alarm_cycle">>]
              /\ UNCHANGED lowRead
         ELSE /\ fpc' = [fpc EXCEPT ![f] = afterLow]
              /\ lowRead' = [lowRead EXCEPT ![f] = (pin = 0)]
              /\ lastLog' = [lastLog EXCEPT ![f] = <<"info", "end_cycle">>]
              /\ UNCHANGED <<alarm_counter, alarmLog, resends>>
    /\ UNCHANGED <<pin, edge, wpc, read1, nflows, lastPass, passEvents>>
    /\ UNCHANGED <<trans, status, event_time, ctx, current_time, rvars, hvars>>
    /\ UNCHANGED <<sends, cap, pvars, cycleRetries, nLookups, lastSend, mvars>>

\* CheckAlert without the break of line 255: a 0 read only skips the re-send.
CheckAlertNoBreak(f) == CheckAlertBreaking(f, pin, "tick", input_status)

\* CheckAlert waiting for an edge of the line instead of sleeping.
CheckAlertWaitsForEdge(f) == edge /\ CheckAlertBreaking(f, pin, "done", input_status)

\* CheckAlert testing the Board's input_status instead of a fresh read.
CheckAlertTestsStatus(f) == CheckAlertBreaking(f, input_status, "done", input_status)

\* CheckAlert storing its fresh read in the Board.
CheckAlertStoresRead(f) == CheckAlertBreaking(f, pin, "done", pin)

\* Board.check_alert lines 232-255: sleep(10), a fresh read of the pin; 1
\* counts and logs the cycle and calls event.alert again, 0 breaks out of the
\* loop.
CheckAlert(f) == CheckAlertBreaking(f, pin, "done", input_status)

Flow(f) ==
    \/ AlertCreate(f)
    \/ EventAlert(f)
    \/ NotifyRecipients(f)
    \/ HandleError(f)
    \/ RetrySleep(f)
    \/ RetrySend(f)
    \/ AlertCheck(f)
    \/ CheckAlert(f)

Next ==
    \/ LineChange
    \/ Watcher
    \/ \E f \in Flows : Flow(f)

Spec == Init /\ [][Next]_vars

SpecFlow == InitFlow /\ [][Next]_vars

SpecTwo == InitTwo /\ [][Next]_vars

\* Every EventThread is scheduled again and again: its sleeps end and its
\* send_email calls return or raise.
SpecLive == InitLive /\ [][Next]_vars /\ \A f \in Flows : WF_vars(Flow(f))

\* ---- Email.send_email ----------------------------------------------------
others == <<pin, edge, wvars, fvars, cap, xvars>>

\* send_email lines 95-102: a call begins and builds its message.  The
\* callers call send_email again on the same object (handle_email_error).
SendEmailCall ==
    /\ mail.pc \in {"idle", "returned", "raised"}
    /\ mail.calls < MaxCalls
    /\ mail' = [mail EXCEPT !.pc = "connect", !.calls = @ + 1,
                            !.message = MimeText(mail.obj),
                            !.logins = << >>, !.sendmails = << >>,
                            !.failed = "none"]
    /\ UNCHANGED <<others, csv>>

\* Email.set_subject lines 73-76, called between two send_email calls.
SetSubject ==
    /\ mail.pc = "raised"
    /\ mail.calls < MaxCalls
    /\ mail.obj.subject # ItFailure(LookupError)
    /\ mail' = [mail EXCEPT !.obj.subject = ItFailure(LookupError)]
    /\ UNCHANGED <<others, csv>>

\* send_email lines 106-107: smtplib.SMTP_SSL(...) connects or raises.
SmtpConnect ==
    /\ mail.pc = "connect"
    /\ \E ok \in BOOLEAN :
         mail' = IF ok THEN [mail EXCEPT !.pc = "login"]
                       ELSE [mail EXCEPT !.pc = "raised", !.failed = "connect"]
    /\ UNCHANGED <<others, csv>>

\* SmtpLogin when a failed login is tried again.
SmtpLoginRetrying ==
    /\ mail.pc = "login"
    /\ \E ok \in BOOLEAN :
         mail' = IF ok
                   THEN [mail EXCEPT !.pc = "sendmail",
                                     !.logins = Append(@, <<Sender, Password>>)]
                   ELSE [mail EXCEPT !.logins = Append(@, <<Sender, Password>>)]
    /\ UNCHANGED <<others, csv>>

\* send_email line 110: smtp_server.login(sender, password)
SmtpLogin ==
    /\ mail.pc = "login"
    /\ \E ok \in BOOLEAN :
         mail' = IF ok
                   THEN [mail EXCEPT !.pc = "sendmail",
                                     !.logins = Append(@, <<Sender, Password>>)]
                   ELSE [mail EXCEPT !.pc = "raised", !.failed = "login",
                                     !.logins = Append(@, <<Sender, Password>>)]
    /\ UNCHANGED <<others, csv>>

\* send_email lines 113-114: smtp_server.sendmail(sender, recipient,
\* message.as_string())
SmtpSendmail ==
    /\ mail.pc = "sendmail"
    /\ \E ok \in BOOLEAN :
         LET call == <<Sender, mail.obj.recipient, mail.message>> IN
         mail' = IF ok
                   THEN [mail EXCEPT !.pc = "quit",
                                     !.sendmails = Append(@, call)]
                   ELSE [mail EXCEPT !.pc = "raised", !.failed = "sendmail",
                                     !.sendmails = Append(@, call)]
    /\ UNCHANGED <<others, csv>>

\* send_email lines 106-117: the with block is left, which closes the
\* session; an exception of the closing is re-raised like the others.
SmtpQuit ==
    /\ mail.pc = "quit"
    /\ \E ok \in BOOLEAN :
         mail' = IF ok THEN [mail EXCEPT !.pc = "returned"]
                       ELSE [mail EXCEPT !.pc = "raised", !.failed = "quit"]
    /\ UNCHANGED <<others, csv>>

NextEmail ==
    \/ SendEmailCall
    \/ SetSubject
    \/ SmtpConnect
    \/ SmtpLogin
    \/ SmtpSendmail
    \/ SmtpQuit

SpecEmail == InitEmail /\ [][NextEmail]_vars

\* ---- FreezerData.parse_csv ------------------------------------------------
\* parse_csv lines 47-55: a missing file raises FileNotFoundError and leaves
\* data as it is; otherwise the rows are read in order.
ParseCsv ==
    /\ csv.pc = "new"
    /\ csv' = IF csv.file.exists
                THEN [csv EXCEPT !.pc = "parsed",
                                 !.data = FirstMatch(csv.file.rows, csv.ip, 1, csv.data)]
                ELSE [csv EXCEPT !.pc = "raised"]
    /\ UNCHANGED <<others, mail>>

\* Event.alert lines 86-99: the route taken after parse_csv.
AlertAfterParse ==
    /\ csv.pc \in {"parsed", "raised"}
    /\ csv' = [csv EXCEPT !.pc = "routed",
                          !.route = AlertRoute(LookupOutcome(csv.pc = "raised", csv.data))]
    /\ UNCHANGED <<others, mail>>

NextCsv ==
    \/ ParseCsv
    \/ AlertAfterParse

SpecCsv == InitCsv /\ [][NextCsv]_vars

\* ---- sensor faults -----------------------------------------------------
\* GPIO.input (Board.py lines 159, 177, 180) or GPIO.wait_for_edge (line 173)
\* raises in the main thread.  Nothing in monitor or minus80_main catches it:
\* the main thread ends.  The EventThreads are not daemon threads.
WatcherFault ==
    /\ wpc \in {"start", "wait", "debounce", "store"}
    /\ wpc' = "dead"
    /\ UNCHANGED <<pin, edge, input_status, read1, nflows, lastPass, passEvents>>
    /\ UNCHANGED <<fvars, cap, pvars, xvars>>

\* GPIO.input of check_alert line 238 raises after the sleep of line 234.
\* Nothing in check_alert or alert catches it: the EventThread ends.
CheckAlertFault(f) ==
    /\ fpc[f] = "tick"
    /\ current_time[f] < Window
    /\ now' = [now EXCEPT ![f] = @ + SubInterval]
    /\ fpc' = [fpc EXCEPT ![f] = "dead"]
    /\ UNCHANGED <<pin, edge, wvars, trans, status, event_time, ctx, current_time, alarm_counter>>
    /\ UNCHANGED <<rvars, hvars, sends, cap, pvars, xvars>>

NextFault ==
    \/ Next
    \/ WatcherFault
    \/ \E f \in Flows : CheckAlertFault(f)

SpecFault == Init /\ [][NextFault]_vars

TypeOK ==
    /\ pin \in Levels
    /\ edge \in BOOLEAN
    /\ wpc \in {"start", "startcheck", "loop", "wait", "debounce", "store", "initiate",
                "dead"}
    /\ input_status \in Levels \cup {NoStatus}
    /\ nflows \in 0..cap.flows
    /\ \A f \in Flows :
         /\ fpc[f] \in {"idle", "create", "lookup", "primary", "it", "retry_sleep",
                        "retry_send", "check", "tick", "done", "dead"}
         /\ status[f] \in {"NONE", "ALARM", "RECOVERY"}
         /\ ctx[f] \in {"first", "cycle"}
         /\ (fpc[f] = "idle") = (f > nflows)
         /\ lastSend[f] \in {"none", "primary_ok", "primary_fail", "it_ok", "it_fail",
                             "retry_ok", "retry_fail"}
         /\ nLookups[f] \in Nat
         /\ sentMsg[f].recipient \in {"", SiteRecipient, ItRecipient}

\* ---- properties ----------------------------------------------------------
InRetryLoop(f) == fpc[f] \in {"retry_sleep", "retry_send"}
InCycle(f)     == ctx[f] = "cycle" /\ fpc[f] # "done"
Started(f)     == fpc[f] \notin {"idle", "done"}
Attempts(f)    == nPrimary[f] + nIT[f] + nRetry[f]

C2_BounceSuppressed ==
    [][(wpc = "debounce" /\ wpc' # wpc /\ pin = input_status) =>
          /\ wpc' = "loop"
          /\ lastPass' = "bounce"
          /\ passEvents' = 0
          /\ nflows' = nflows
          /\ fpc' = fpc
          /\ input_status' = input_status]_vars

C2_Witness ==
    /\ wpc = "loop" /\ lastPass = "bounce" /\ passEvents = 0
    /\ nflows = 1 /\ input_status = 1 /\ pin = 1

\* C3: the Event a flow builds has the status of the transition that
\* started the flow.
C3_StatusOfStartingTransition ==
    \A f \in Flows : status[f] # "NONE" => status[f] = EventStatus(trans[f])

\* C4: before the first wait_for_edge returns, one event (ALARM) has been
\* emitted when the first read was 1 and none when it was 0; input_status
\* holds the first read from before any flow exists.
C4_Startup ==
    /\ (wpc \in {"loop", "wait"} /\ lastPass = "none") =>
           /\ input_status = read1
           /\ nflows = (IF read1 = 1 THEN 1 ELSE 0)
           /\ (nflows = 1 => trans[1] = 1)
    /\ \A f \in Flows : fpc[f] # "idle" => input_status \in Levels

C4_Witness ==
    /\ wpc = "loop" /\ lastPass = "none"
    /\ read1 = 1 /\ nflows = 1 /\ trans[1] = 1 /\ fpc[1] = "create"

\* C5: while a flow is in the re-alert cycle or in the retry loop, the
\* Watcher can take its next step unless it is blocked in wait_for_edge with
\* no edge, and every other started flow can take its next step: nothing
\* waits for the busy flow.
WatcherRunnable ==
    /\ ~(wpc = "wait" /\ ~edge)
    /\ ~(wpc = "loop" /\ nflows >= cap.flows)

FlowRunnable(f) ==
    /\ Started(f)
    /\ fpc[f] \in {"primary", "it", "retry_send"} => sends < cap.sends

C5_BusyFlowBlocksNobody ==
    \A f \in Flows : (InCycle(f) \/ InRetryLoop(f)) =>
        /\ WatcherRunnable => ENABLED Watcher
        /\ \A g \in Flows \ {f} : FlowRunnable(g) => ENABLED Flow(g)

C5_Witness ==
    /\ InRetryLoop(1)
    /\ trans[2] # NoStatus /\ trans[2] # trans[1]
    /\ Attempts(2) = 1

\* C6: a flow whose lookup failed makes no primary attempt and sends exactly
\* one IT message over the whole flow.
C6_LookupFailureOneITMessage ==
    \A f \in Flows : lookup1[f] = "fail" =>
        /\ nPrimary[f] = 0
        /\ nIT[f] <= 1
        /\ fpc[f] = "done" => nIT[f] = 1

\* C7: a flow whose primary send failed and whose IT send succeeded makes
\* two delivery attempts in all and never tries the primary path again.
C7_PrimaryFailedITSentTwoAttempts ==
    \A f \in Flows : (primary1[f] = "fail" /\ it1[f] = "ok") =>
        /\ nPrimary[f] = 1
        /\ Attempts(f) = 2

\* C8: in handle_email_error every sleep is followed by exactly one send,
\* the k-th failed send logs k, the loop is left by a successful send and by
\* nothing else, and no send follows the success.
C8_RetryLoop ==
    \A f \in Flows :
        /\ failLog[f] = [k \in 1..failure_count[f] |-> k]
        /\ fpc[f] = "retry_sleep" =>
               ~email_sent[f] /\ retrySends[f] = failure_count[f]
                              /\ retrySleeps[f] = retrySends[f]
        /\ fpc[f] = "retry_send" =>
               ~email_sent[f] /\ retrySends[f] = failure_count[f]
                              /\ retrySleeps[f] = retrySends[f] + 1
        /\ (~InRetryLoop(f) /\ retrySleeps[f] > 0) => email_sent[f]
        /\ email_sent[f] =>
               ~InRetryLoop(f) /\ retrySends[f] = failure_count[f] + 1
                               /\ retrySleeps[f] = retrySends[f]

C8_Witness ==
    /\ primary1[1] = "fail" /\ it1[1] = "fail"
    /\ email_sent[1] /\ failure_count[1] = 3 /\ failLog[1] = <<1, 2, 3>>
    /\ retrySends[1] = 4 /\ ~InRetryLoop(1)

\* C9: only a flow with an ALARM Event whose primary notification was
\* delivered enters the re-alert cycle.
C9_CycleOnlyAfterDeliveredAlarm ==
    \A f \in Flows : ctx[f] = "cycle" => (status[f] = "ALARM" /\ primary1[f] = "ok")

\* C10: a flow with a RECOVERY Event never enters the re-alert cycle.
C10_RecoveryNeverCycles ==
    \A f \in Flows : status[f] = "RECOVERY" => ctx[f] = "first"

C12_LowReadEndsCycle ==
    [][\A f \in Flows :
          /\ (fpc[f] = "tick" /\ now'[f] # now[f] /\ pin = 0) =>
                 /\ fpc'[f] = "done"
                 /\ lowRead'[f]
                 /\ now'[f] = now[f] + SubInterval
                 /\ Attempts(f)' = Attempts(f)
                 /\ sends' = sends
          /\ fpc[f] = "done" =>
                 /\ fpc'[f] = "done"
                 /\ now'[f] = now[f]
                 /\ Attempts(f)' = Attempts(f)]_vars

C12_Witness ==
    /\ fpc[1] = "done" /\ lowRead[1] /\ resends[1] = 2 /\ now[1] = 3 * SubInterval
    /\ Attempts(1) = 3

\* ---- C13 ---------------------------------------------------------------
SendFailed(f) == lastSend[f] \in {"primary_fail", "it_fail", "retry_fail"}

\* C13: no delivery failure is dropped.  After a failed primary send the
\* flow stands before the IT send; after a failed IT send it is in the retry
\* loop before the first sleep; after a failed retry it is in the loop again,
\* with one sleep ahead of each retry send.  The flow has not ended, and its
\* next step can be taken unless the exploration's send budget is used up.
C13_NoFailureDropped ==
    \A f \in Flows :
        /\ lastSend[f] = "primary_fail" => fpc[f] = "it"
        /\ lastSend[f] = "it_fail" =>
               /\ InRetryLoop(f) /\ ~email_sent[f]
               /\ retrySends[f] = 0
        /\ lastSend[f] = "retry_fail" =>
               /\ InRetryLoop(f) /\ ~email_sent[f]
               /\ retrySends[f] > 0
        /\ fpc[f] = "retry_sleep" => retrySleeps[f] = retrySends[f]
        /\ fpc[f] = "retry_send" => retrySleeps[f] = retrySends[f] + 1
        /\ SendFailed(f) =>
               /\ fpc[f] # "done"
               /\ (ENABLED Flow(f)) \/ sends = cap.sends

C13_Witness ==
    /\ lastSend[1] = "retry_fail" /\ primary1[1] = "fail" /\ it1[1] = "fail"
    /\ retrySends[1] = 2 /\ fpc[1] = "retry_send"

\* ---- C14 ---------------------------------------------------------------
\* C14: every failure is logged before the next escalation step.  When the
\* flow stands before the IT send, the latest log entry is the error entry of
\* the failed lookup or of the failed primary send; when it stands in the
\* retry loop before the first retry, the latest entry is the critical entry
\* of the failed IT send, and before a later retry the critical entry of the
\* failed retry.
C14_FailureLoggedBeforeEscalation ==
    \A f \in Flows :
        /\ fpc[f] = "it" =>
               /\ lastLog[f] \in {<<"error", "lookup">>, <<"error", "primary">>}
               /\ lastLog[f] = <<"error", "primary">> <=> lastSend[f] = "primary_fail"
        /\ (InRetryLoop(f) /\ retrySends[f] = 0) => lastLog[f] = <<"critical", "it">>
        /\ (InRetryLoop(f) /\ retrySends[f] > 0) => lastLog[f] = <<"critical", "retry">>

C14_Witness ==
    /\ fpc[1] = "retry_send" /\ retrySends[1] = 0 /\ primary1[1] = "fail"
    /\ lastLog[1] = <<"critical", "it">>

\* ---- C15 ---------------------------------------------------------------
SensorFault == wpc = "dead" \/ \E f \in Flows : fpc[f] = "dead"

\* C15: a sensor fault is fatal to the process.  Once a read or the edge
\* wait has failed, in the Watcher or in a flow's cycle, neither the Watcher
\* nor any flow takes another step and no further message is attempted.
C15_SensorFaultFatal ==
    [][SensorFault => (wpc' = wpc /\ fpc' = fpc /\ sends' = sends)]_vars

\* ---- C16 ---------------------------------------------------------------
\* C16: one call of send_email makes at most one login and at most one
\* sendmail, each with the object's sender, recipient and the message built
\* from the object; a call that returns has made exactly one of each; a call
\* in which the connection, the login, the send or the closing failed has
\* raised at that point, having made no SMTP call after the failure, and
\* makes none afterwards.
C16_SingleAttempt ==
    /\ Len(mail.logins) <= 1
    /\ Len(mail.sendmails) <= 1
    /\ \A i \in 1..Len(mail.logins) : mail.logins[i] = <<Sender, Password>>
    /\ \A i \in 1..Len(mail.sendmails) :
           mail.sendmails[i] = <<Sender, mail.obj.recipient, mail.message>>
    /\ mail.pc \in {"connect", "login", "sendmail", "quit", "returned"} =>
           /\ mail.message = MimeText(mail.obj)
           /\ mail.failed = "none"
    /\ mail.pc = "returned" => Len(mail.logins) = 1 /\ Len(mail.sendmails) = 1
    /\ mail.pc = "raised" =>
           /\ mail.failed \in {"connect", "login", "sendmail", "quit"}
           /\ Len(mail.logins) = (IF mail.failed = "connect" THEN 0 ELSE 1)
           /\ Len(mail.sendmails) = (IF mail.failed \in {"connect", "login"} THEN 0 ELSE 1)
           /\ ~ENABLED (SmtpConnect \/ SmtpLogin \/ SmtpSendmail \/ SmtpQuit)

C16_Witness ==
    /\ mail.pc = "returned" /\ mail.calls = 2
    /\ mail.obj.subject = ItFailure(LookupError)
    /\ mail.sendmails = <<<<Sender, ItRecipient, MimeText(mail.obj)>>>>
    /\ mail.logins = <<<<Sender, Password>>>>

\* ---- C17 ---------------------------------------------------------------
Matches == {i \in 1..Len(csv.file.rows) : csv.file.rows[i]["IP"] = csv.ip}

\* C17: after parse_csv(ip) on a file that exists, data is the row with the
\* least index among the rows whose IP equals ip, whatever rows follow it,
\* and the empty dict when there is no such row; Event.alert goes to the
\* IT-only alert when data is empty (or the file is missing) and to
\* notify_recipients otherwise.
C17_FirstMatchingRow ==
    /\ (csv.pc \in {"parsed", "routed"} /\ csv.file.exists) =>
           IF Matches = {}
             THEN csv.data = NoData
             ELSE \E i \in Matches :
                      /\ \A j \in Matches : i <= j
                      /\ csv.data = csv.file.rows[i]
    /\ csv.pc = "routed" =>
           csv.route = IF csv.file.exists /\ Matches # {} THEN "primary" ELSE "it"

C17_Witness ==
    /\ csv.pc = "routed" /\ csv.route = "primary"
    /\ Len(csv.file.rows) = 2 /\ Matches = {1, 2}
    /\ csv.file.rows[1] # csv.file.rows[2]
    /\ csv.data = csv.file.rows[1]

\* ---- C18 ---------------------------------------------------------------
\* C18: the levels of consecutive emitted events alternate: the level
\* recorded for an event differs from the level recorded for the event
\* before it, also when the line changes between the read of line 177 and
\* the read of line 180.
C18_EventsAlternate ==
    \A f \in Flows : (1 < f /\ f <= nflows) => trans[f] # trans[f - 1]

\* ---- C19 ---------------------------------------------------------------
RetrySent(f) == lastSend[f] \in {"retry_ok", "retry_fail"}

\* C19 as stated: every message sent by the retry loop is the IT message
\* whose delivery failed: same recipient, same subject, same body.
C19_RetrySameMessage ==
    \A f \in Flows : RetrySent(f) => sentMsg[f] = itMsg[f]

\* C19 amended: every message sent by the retry loop has the recipient and
\* the body of the IT message whose delivery failed; its subject is that
\* message's subject without the leading "!!! -80 ALERT !!!" and with
\* "AND email IT team" appended.
C19_RetrySameRecipientBody ==
    \A f \in Flows : RetrySent(f) =>
        /\ sentMsg[f].recipient = itMsg[f].recipient
        /\ sentMsg[f].body = itMsg[f].body
        /\ sentMsg[f].subject = Tail(itMsg[f].subject) \o <<"AND email IT team">>
        /\ sentMsg[f] = email[f]

C19_Witness ==
    /\ lastSend[1] = "retry_fail" /\ retrySends[1] = 2 /\ primary1[1] = "fail"
    /\ itMsg[1].subject = <<"!!! -80 ALERT !!!">> \o PrimaryError(SiteRecipient)
    /\ sentMsg[1].subject = PrimaryError(SiteRecipient) \o <<"AND email IT team">>
    /\ sentMsg[1].recipient = ItRecipient

\* ---- C20 ---------------------------------------------------------------
\* C20: the site record of an Event is resolved once in its flow: parse_csv
\* runs once, before the first notification, and not again for the re-sends
\* of the re-alert cycle.
C20_LookupOnce ==
    \A f \in Flows : nLookups[f] <= 1

\* ---- C21 ---------------------------------------------------------------
\* C21: input_status is written only by the Watcher.  A step of a flow (it
\* moves the flow's position, sends, or lets the flow's time pass) leaves
\* input_status as it is; a step that changes it is a step of Board.monitor
\* at line 159 or line 180.
C21_OnlyWatcherWrites ==
    [][/\ (fpc' # fpc /\ nflows' = nflows) => input_status' = input_status
       /\ input_status' # input_status =>
              /\ wpc \in {"start", "store"}
              /\ wpc' # wpc
              /\ fpc' = fpc]_vars

C21_Witness ==
    /\ nflows = 2 /\ trans[1] = 1 /\ input_status = 0
    /\ fpc[1] = "done" /\ ctx[1] = "cycle" /\ lowRead[1]
    /\ fpc[2] = "done"

\* ---- C22 ---------------------------------------------------------------
\* C22: with a transport that eventually succeeds, every flow that was
\* started reaches its end, whatever the line does and whatever status its
\* Event has; in particular a re-alert cycle ends, and a retry loop ends once
\* the transport succeeds.
C22_FlowsComplete ==
    \A f \in Flows : (fpc[f] # "idle") ~> (fpc[f] = "done")

C22_Witness ==
    /\ fpc[1] = "done" /\ ctx[1] = "cycle" /\ ~lowRead[1] /\ resends[1] = 6
    /\ nRetry[1] = 1 /\ sends = cap.sends /\ cap.heal

\* ---- C23 ---------------------------------------------------------------
\* The status a message shows: the first word of the primary body, the
\* status of the IT body.
MessageStatus(m) == IF m.recipient = SiteRecipient THEN m.body[1] ELSE m.body[2]

\* C23: once a flow's Event is built its status and its event time stay as
\* they are, and every message the flow sends (primary, re-send, IT, retry)
\* shows that status and that event time, whatever the line has done since.
C23_EventFixed ==
    [][\A f \in Flows :
          /\ status[f] # "NONE" =>
                 /\ status'[f] = status[f]
                 /\ event_time'[f] = event_time[f]
          /\ sentMsg'[f] # NoEmail =>
                 /\ MessageStatus(sentMsg'[f]) = status'[f]
                 /\ sentMsg'[f].time = event_time'[f]]_vars

C23_Witness ==
    /\ status[1] = "ALARM" /\ event_time[1] = 0
    /\ resends[1] = 2 /\ now[1] = 2 * SubInterval /\ lastSend[1] = "it_ok"
    /\ pin = 0
    /\ MessageStatus(sentMsg[1]) = "ALARM" /\ sentMsg[1].time = 0

\* ---- C24 ---------------------------------------------------------------
\* C24: a re-alert cycle that has ended before its window was over has read
\* LOW at one of its own ticks; nothing the Watcher or another flow does ends
\* it.  (The witness is the case of the line going LOW and back to HIGH
\* between two ticks of flow 1: flow 1 re-sends at its next tick while flow
\* 3, started for the second HIGH, is in a cycle of its own.)
C24_CycleEndsOnOwnLowRead ==
    \A f \in Flows :
        (ctx[f] = "cycle" /\ fpc[f] = "done" /\ now[f] < Window) => lowRead[f]

C24_Witness ==
    /\ nflows = 3 /\ trans = <<1, 0, 1>>
    /\ status[1] = "ALARM" /\ status[3] = "ALARM"
    /\ ctx[1] = "cycle" /\ fpc[1] = "tick" /\ ~lowRead[1]
    /\ ctx[3] = "cycle" /\ fpc[3] = "tick" /\ ~lowRead[3]
    /\ nPrimary[1] = 2 /\ resends[1] = 1 /\ nPrimary[3] = 1
    /\ sends = 3

\* ---- C25 ---------------------------------------------------------------
\* C25: the retry loop runs inside the flow that entered it.  A step taken
\* while the flow is in the loop is none of its ticks (no fresh read, no
\* re-send counted) and no primary send; the flow leaves the loop only by a
\* retry that succeeded; and when that happens in the re-alert cycle with
\* the window over, the flow is at its end.
C25_RetryLoopInsideFlow ==
    [][\A f \in Flows : InRetryLoop(f) =>
          /\ nPrimary'[f] = nPrimary[f]
          /\ nIT'[f] = nIT[f]
          /\ resends'[f] = resends[f]
          /\ lowRead'[f] = lowRead[f]
          /\ alarm_counter'[f] = alarm_counter[f]
          /\ ~InRetryLoop(f)' =>
                 /\ fpc[f] = "retry_send"
                 /\ lastSend'[f] = "retry_ok"
                 /\ nRetry'[f] = nRetry[f] + 1
                 /\ (ctx[f] = "cycle" /\ ~(now[f] < Window)) => fpc'[f] = "done"
                 /\ (ctx[f] = "cycle" /\ now[f] < Window) => fpc'[f] = "tick"
                 /\ ctx[f] = "first" => fpc'[f] = "check"]_vars

C25_Witness ==
    /\ fpc[1] = "done" /\ ctx[1] = "cycle" /\ ~lowRead[1]
    /\ lastSend[1] = "retry_ok" /\ cycleRetries[1] = 2
    /\ resends[1] = 5 /\ now[1] = Window

====
